---- MODULE Spec2Model ----
(***************************************************************************)
(* Model of recommend_prompts.py: the classification and recommendation    *)
(* engine of the prompt-package recommender.  A run of main() is a state   *)
(* machine: Start (precondition checks, detect_components, reading the     *)
(* manifest), one ProcessLine step per manifest line, Finish (dedupe,      *)
(* reports, summary).  Paths are TLA+ strings; Python's str operations are *)
(* the operators of the first section.                                     *)
(***************************************************************************)
EXTENDS Integers, Sequences, FiniteSets, TLC

VARIABLES
    manifest,            \* input: the manifest file, a sequence of lines, or NoFile
    source_dir,          \* input: the files under --source-dir, or NoDir
    target_home,         \* input: the entries under --target-home, or NoDir
    args,                \* input: [profile, include_critical, include_not_needed]
    pc,                  \* position of main(): "start", "loop", "done", "exit"
    detected,            \* detect_components(target_home)
    raw_lines,           \* manifest_path.read_text().splitlines()
    idx,                 \* index in raw_lines of the line the for loop handles next
    total_nonempty,
    recommended,
    critical,
    not_needed,
    optional_unmatched,
    install_list,
    invalid_entries,
    missing_files,
    summary              \* the summary dict written to analysis.json

vars == <<manifest, source_dir, target_home, args, pc, detected, raw_lines, idx,
          total_nonempty, recommended, critical, not_needed, optional_unmatched,
          install_list, invalid_entries, missing_files, summary>>

(***************************************************************************)
(* Bounds                                                                  *)
(***************************************************************************)
MaxLines == 3

(***************************************************************************)
(* Python str operations                                                   *)
(***************************************************************************)
UpperChars == "ABCDEFGHIJKLMNOPQRSTUVWXYZ"

LowerChars == "abcdefghijklmnopqrstuvwxyz"

CharAt(s, i) == SubSeq(s, i, i)

LowerChar(c) ==
    IF \E i \in 1..26 : CharAt(UpperChars, i) = c
    THEN CharAt(LowerChars, CHOOSE i \in 1..26 : CharAt(UpperChars, i) = c)
    ELSE c

RECURSIVE lower(_)
lower(s) == IF s = "" THEN "" ELSE LowerChar(CharAt(s, 1)) \o lower(Tail(s))

startswith(s, p) == Len(p) <= Len(s) /\ SubSeq(s, 1, Len(p)) = p

endswith(s, p) == Len(p) <= Len(s) /\ SubSeq(s, Len(s) - Len(p) + 1, Len(s)) = p

contains(s, p) == \E i \in 1..(Len(s) - Len(p) + 1) : SubSeq(s, i, i + Len(p) - 1) = p

IsSpace(c) == c \in {" ", "\t", "\n", "\r", "\f"}

RECURSIVE lstrip(_)
lstrip(s) == IF s # "" /\ IsSpace(CharAt(s, 1)) THEN lstrip(Tail(s)) ELSE s

RECURSIVE rstrip(_)
rstrip(s) ==
    IF s # "" /\ IsSpace(CharAt(s, Len(s))) THEN rstrip(SubSeq(s, 1, Len(s) - 1)) ELSE s

strip(s) == rstrip(lstrip(s))

\* s.split("/"): the segments between slashes, empty ones included.
RECURSIVE split_acc(_, _, _)
split_acc(s, cur, out) ==
    IF s = "" THEN Append(out, cur)
    ELSE IF CharAt(s, 1) = "/" THEN split_acc(Tail(s), "", Append(out, cur))
    ELSE split_acc(Tail(s), cur \o CharAt(s, 1), out)

split(s) == split_acc(s, "", <<>>)

SelectSeqNotIn(seq, drop) == SelectSeq(seq, LAMBDA x : x \notin drop)

\* pathlib: PurePosixPath(rel).parts for a path that does not start with "/":
\* the segments, without the empty ones and the "." ones.
parts(rel) == SelectSeqNotIn(split(rel), {"", "."})

\* pathlib: PurePosixPath(rel).name, the last part ("" when there is none).
name(rel) == IF parts(rel) = <<>> THEN "" ELSE parts(rel)[Len(parts(rel))]

ToSet(seq) == {seq[i] : i \in 1..Len(seq)}

(***************************************************************************)
(* Components                                                              *)
(***************************************************************************)
COMPONENTS ==
    <<"roo_code", "skill_code_agent", "skill_ip_config_manager",
      "prompt_agent_workspace", "aidrax_agent_standards", "enterprise_prompts",
      "general">>

(***************************************************************************)
(* Content categorizer                                                     *)
(***************************************************************************)
is_not_needed(rel) ==
    contains(rel, "/__tests__/") \/ endswith(rel, ".spec.ts") \/ endswith(rel, ".snap")

is_system_critical(rel) ==
    LET low == lower(rel) IN
    IF endswith(low, ".ts") \/ endswith(low, ".js") \/ endswith(low, ".py")
       \/ endswith(low, ".sh")
    THEN TRUE
    ELSE IF startswith(low, "roo-code/src/") THEN TRUE
    ELSE IF startswith(low, "roo-code/webview-ui/src/components/") THEN TRUE
    ELSE FALSE

is_prompt_content(rel) ==
    LET low == lower(rel)
        filename == lower(name(rel))
    IN  IF contains(low, "/prompts/") \/ contains(low, "/templates/") THEN TRUE
        ELSE IF contains(filename, "prompt") THEN TRUE
        ELSE IF endswith(low, "system_prompt.txt") THEN TRUE
        ELSE IF endswith(low, "support-prompt.ts") THEN TRUE
        ELSE FALSE

(***************************************************************************)
(* Component classifier                                                    *)
(***************************************************************************)
classify_component(rel) ==
    LET low == lower(rel) IN
    IF startswith(low, "roo-code/") \/ contains(low, "/roo-code/") THEN "roo_code"
    ELSE IF \/ startswith(low, "skills/code-agent/")
            \/ contains(low, "/skills/code-agent/")
            \/ contains(low, "/aidrax-core-skills/skills/code-agent/")
         THEN "skill_code_agent"
    ELSE IF \/ startswith(low, "skills/ip-config-manager/")
            \/ contains(low, "/skills/ip-config-manager/")
            \/ contains(low, "/aidrax-core-skills/skills/ip-config-manager/")
         THEN "skill_ip_config_manager"
    ELSE IF contains(low, "aidrax_prompt_und_agenten/") THEN "prompt_agent_workspace"
    ELSE IF \/ contains(low, "/aidrax-agent/standards/")
            \/ startswith(low, "downloads/aidrax-agent/standards/")
         THEN "aidrax_agent_standards"
    ELSE IF \/ contains(low, "/aidrax-enterprise/prompts/")
            \/ startswith(low, "aidrax-enterprise/prompts/")
         THEN "enterprise_prompts"
    ELSE "general"

(***************************************************************************)
(* Path validator                                                          *)
(***************************************************************************)
\* mutant: looks for ".." anywhere in the string instead of in path.parts
is_valid_relative_path_substring(rel) ==
    IF strip(rel) = "" THEN FALSE
    ELSE IF startswith(rel, "/") THEN FALSE
    ELSE IF contains(rel, "..") THEN FALSE
    ELSE TRUE

is_valid_relative_path(rel) ==
    IF strip(rel) = "" THEN FALSE
    ELSE IF startswith(rel, "/") THEN FALSE
    ELSE IF \E i \in 1..Len(parts(rel)) : parts(rel)[i] = ".." THEN FALSE
    ELSE TRUE

(***************************************************************************)
(* Environment detector.  A directory tree is the set of its entries, each *)
(* entry the tuple of names leading to it from the root (the root is <<>>  *)
(* and exists); a tree holds every prefix of each of its entries.  The     *)
(* root's own path is taken to hold none of the characters * ? [.          *)
(***************************************************************************)
checks ==
    [roo_code |->
        <<"Roo-Code", "home/*/Roo-Code", "projects/Roo-Code",
          "data2/projects/Roo-Code">>,
     skill_code_agent |->
        <<"skills/code-agent", "home/*/skills/code-agent",
          "Downloads/aidrax-core-skills/skills/code-agent",
          "home/*/Downloads/aidrax-core-skills/skills/code-agent",
          "data2/projects/aidrax-core-skills/skills/code-agent">>,
     skill_ip_config_manager |->
        <<"skills/ip-config-manager", "home/*/skills/ip-config-manager",
          "Downloads/aidrax-core-skills/skills/ip-config-manager",
          "home/*/Downloads/aidrax-core-skills/skills/ip-config-manager",
          "data2/projects/aidrax-core-skills/skills/ip-config-manager">>,
     prompt_agent_workspace |->
        <<"Dokumente/aidrax_prompt_und_agenten",
          "home/*/Dokumente/aidrax_prompt_und_agenten">>,
     aidrax_agent_standards |->
        <<"aidrax-agent/standards", "Downloads/aidrax-agent/standards",
          "home/*/Downloads/aidrax-agent/standards",
          "data2/projects/aidrax-agent/standards">>,
     enterprise_prompts |->
        <<"aidrax-enterprise/prompts", "home/*/aidrax-enterprise/prompts",
          "data2/projects/aidrax-enterprise/prompts">>,
     general |-> <<".">>]

\* glob.has_magic
has_magic(s) == contains(s, "*") \/ contains(s, "?") \/ contains(s, "[")

\* glob._ishidden
ishidden(n) == startswith(n, ".")

\* fnmatch.fnmatch for the patterns of checks: the only pattern with a
\* special character is "*", which matches every name.
fnmatch(n, pat) == IF pat = "*" THEN TRUE ELSE n = pat

\* os.path.lexists(root / entry)
lexists(tree, entry) == entry = <<>> \/ entry \in tree

\* os.scandir(root / dir): the names of the entries directly under dir
listdir(tree, dir) ==
    {e[Len(dir) + 1] : e \in {x \in tree : /\ Len(x) = Len(dir) + 1
                                          /\ SubSeq(x, 1, Len(dir)) = dir}}

\* glob.glob1: the names under dir that match a pattern with a special
\* character; hidden names are left out unless the pattern is hidden itself.
glob1(tree, dir, pattern) ==
    {n \in listdir(tree, dir) : /\ (ishidden(pattern) \/ ~ishidden(n))
                                /\ fnmatch(n, pattern)}

\* glob.glob0: a pattern without special characters matches when it exists.
glob0(tree, dir, basename) ==
    IF lexists(tree, Append(dir, basename)) THEN {basename} ELSE {}

\* glob._iglob on the first k segments of the pattern
RECURSIVE iglob(_, _, _)
iglob(tree, segs, k) ==
    IF k = 0 THEN {<<>>}
    ELSE UNION {{Append(d, n) : n \in IF has_magic(segs[k])
                                      THEN glob1(tree, d, segs[k])
                                      ELSE glob0(tree, d, segs[k])}
                : d \in iglob(tree, segs, k - 1)}

\* glob.glob(str(root / pattern)); root / pattern drops "." segments.
glob(tree, pattern) == iglob(tree, parts(pattern), Len(parts(pattern)))

detect_components(tree) ==
    [c \in ToSet(COMPONENTS) |->
        \E i \in 1..Len(checks[c]) : glob(tree, checks[c][i]) # {}]

(***************************************************************************)
(* Inputs                                                                  *)
(***************************************************************************)
Profiles == {"safe", "auto", "full"}

AllArgs ==
    [profile : Profiles, include_critical : BOOLEAN, include_not_needed : BOOLEAN]

File(lines) == [exists |-> TRUE, lines |-> lines]

NoFile == [exists |-> FALSE, lines |-> <<>>]

SourceDir(files) == [exists |-> TRUE, files |-> files]

NoSourceDir == [exists |-> FALSE, files |-> {}]

TargetDir(entries) == [exists |-> TRUE, entries |-> entries]

NoTargetDir == [exists |-> FALSE, entries |-> {}]

\* the tree that holds the given entries and the directories above them
Tree(leaves) == UNION {{SubSeq(e, 1, k) : k \in 1..Len(e)} : e \in leaves}

Manifests(lines) == UNION {[1..n -> lines] : n \in 0..MaxLines}

\* the files of the package under --source-dir
SourceFiles ==
    {<<"x.spec.ts">>, <<"roo-code", "src", "a.ts">>,
     <<"skills", "code-agent", "prompts", "p.txt">>, <<"random", "notes.txt">>,
     <<"docs", "prompts", "x.txt">>, <<"a", "..b">>, <<"b.txt">>, <<"X.SPEC.TS">>,
     <<"y.Snap">>, <<"a", "__TESTS__", "x.txt">>}

\* a package that lacks some of the files its manifest names
SparseFiles ==
    {<<"roo-code", "src", "a.ts">>, <<"skills", "code-agent", "prompts", "p.txt">>,
     <<"docs", "prompts", "x.txt">>}

\* manifest lines of every disposition
Lines ==
    {"../evil", "missing/file.txt", "x.spec.ts", "roo-code/src/a.ts",
     "skills/code-agent/prompts/p.txt", "random/notes.txt", "docs/prompts/x.txt"}

\* manifest lines with blank lines, comments, surrounding blanks and bad entries
ErrorLines ==
    {"   ", "  # note", "../evil", " missing/file.txt", "random/notes.txt ",
     "x.spec.ts"}

\* manifest lines for the path validator and for the letter case of a path
PathLines ==
    {"/abs/p.txt", "  ../evil", "a/../b.txt", "a/..", "a/..b", "X.SPEC.TS", "y.Snap",
     "a/__TESTS__/x.txt"}

\* target homes for the runs of the engine
Homes == {Tree({}), Tree({<<"home", "alice", "skills", "code-agent">>})}

\* target homes for the detector
DetectLeaves ==
    {<<"Roo-Code">>, <<"home", "alice", "Roo-Code">>, <<"skills", "code-agent">>,
     <<"home", "alice", "skills", "code-agent">>,
     <<"home", ".cache", "skills", "code-agent">>,
     <<"home", "bob", "skills", "ip-config-manager">>,
     <<"home", ".old", "aidrax-enterprise", "prompts">>,
     <<"Downloads", "aidrax-agent", "standards">>}

DetectHomes == {Tree(s) : s \in SUBSET DetectLeaves}

DetectLines == <<"skills/code-agent/prompts/p.txt", "random/notes.txt">>

\* the runs whose start-up checks fail
FailingInputs ==
    {<<NoFile, SourceDir(SourceFiles), TargetDir({})>>,
     <<File(<<>>), NoSourceDir, TargetDir({})>>,
     <<File(<<>>), SourceDir(SourceFiles), NoTargetDir>>}

Inputs(manifests, sources, homes) ==
    {<<File(m), SourceDir(f), TargetDir(h)>> : m \in manifests, f \in sources, h \in homes}
        \cup FailingInputs

(***************************************************************************)
(* The results of the validator, the categorizer, the classifier and the   *)
(* detector for the lines and target homes of the input sets, computed     *)
(* once: the engine below reads them from these tables.                    *)
(***************************************************************************)
KnownLines == Lines \cup ErrorLines \cup PathLines \cup ToSet(DetectLines)

stripped == [raw \in KnownLines |-> strip(raw)]

facts ==
    [rel \in {strip(raw) : raw \in KnownLines} |->
        [is_comment |-> startswith(rel, "#"),
         is_valid_relative_path |-> is_valid_relative_path(rel),
         parts |-> parts(rel),
         is_not_needed |-> is_not_needed(rel),
         is_system_critical |-> is_system_critical(rel),
         is_prompt_content |-> is_prompt_content(rel),
         classify_component |-> classify_component(rel)]]

detect_table == [tree \in Homes \cup DetectHomes |-> detect_components(tree)]

(***************************************************************************)
(* Recommendation engine: the body of main()'s for loop                    *)
(***************************************************************************)
\* (source_dir / rel).is_file()
is_file(src, rel) == facts[rel].parts \in src.files

\* detected.get(component, False)
component_detected(rel, det) ==
    LET component == facts[rel].classify_component IN
    IF component \in DOMAIN det THEN det[component] ELSE FALSE

\* mutant: the system-critical check placed before the test-artifact check
disposition_critical_first(rel) ==
    IF facts[rel].is_system_critical THEN "system_critical"
    ELSE IF facts[rel].is_not_needed THEN "not_needed"
    ELSE "other"

\* the branch main() takes for a valid, existing path
disposition(rel) ==
    IF facts[rel].is_not_needed THEN "not_needed"
    ELSE IF facts[rel].is_system_critical THEN "system_critical"
    ELSE "other"

admit_not_needed(a) == a.include_not_needed \/ a.profile = "full"

\* mutant: profile full no longer admits system-critical files
admit_critical_flag_only(a) == a.include_critical

admit_critical(a) == a.include_critical \/ a.profile = "full"

\* mutant: profile safe installs on prompt content alone
should_install_safe_or(a, rel, det) ==
    LET component == facts[rel].classify_component IN
    IF a.profile = "full" THEN TRUE
    ELSE IF a.profile = "auto"
         THEN component_detected(rel, det) \/ component = "general"
    ELSE IF a.profile = "safe"
         THEN (component_detected(rel, det) \/ component = "general")
              \/ facts[rel].is_prompt_content
    ELSE FALSE

\* mutant: profile auto asks for prompt content as profile safe does
should_install_auto_prompt(a, rel, det) ==
    LET component == facts[rel].classify_component IN
    IF a.profile = "full" THEN TRUE
    ELSE (component_detected(rel, det) \/ component = "general")
         /\ facts[rel].is_prompt_content

should_install(a, rel, det) ==
    LET component == facts[rel].classify_component IN
    IF a.profile = "full" THEN TRUE
    ELSE IF a.profile = "auto"
         THEN component_detected(rel, det) \/ component = "general"
    ELSE IF a.profile = "safe"
         THEN (component_detected(rel, det) \/ component = "general")
              /\ facts[rel].is_prompt_content
    ELSE FALSE

\* mutant: the test on component_detected is left out
is_optional_unmatched_any(rel, det) ==
    LET component == facts[rel].classify_component
        noncritical == ~facts[rel].is_system_critical
        useful == ~facts[rel].is_not_needed
    IN  component # "general" /\ noncritical /\ useful

is_optional_unmatched(rel, det) ==
    LET component == facts[rel].classify_component
        noncritical == ~facts[rel].is_system_critical
        useful == ~facts[rel].is_not_needed
    IN  component # "general" /\ ~component_detected(rel, det) /\ noncritical /\ useful

\* mutant: total_nonempty += 1 placed after the validity check
count_line_valid_only(b, rel) ==
    IF facts[rel].is_valid_relative_path THEN [b EXCEPT !.total_nonempty = @ + 1] ELSE b

count_line(b, rel) == [b EXCEPT !.total_nonempty = @ + 1]

\* lines 223-264: b is the record of the loop's lists and counter
bucket_line(b, rel, a, det, src) ==
    IF ~facts[rel].is_valid_relative_path
    THEN [b EXCEPT !.invalid_entries = Append(@, rel)]
    ELSE IF ~is_file(src, rel)
    THEN [b EXCEPT !.missing_files = Append(@, rel)]
    ELSE IF disposition(rel) = "not_needed"
    THEN [b EXCEPT !.not_needed = Append(@, rel),
                   !.install_list = IF admit_not_needed(a) THEN Append(@, rel) ELSE @]
    ELSE IF disposition(rel) = "system_critical"
    THEN [b EXCEPT !.critical = Append(@, rel),
                   !.install_list = IF admit_critical(a) THEN Append(@, rel) ELSE @]
    ELSE [b EXCEPT
            !.optional_unmatched =
                IF is_optional_unmatched(rel, det) THEN Append(@, rel) ELSE @,
            !.recommended = IF should_install(a, rel, det) THEN Append(@, rel) ELSE @,
            !.install_list = IF should_install(a, rel, det) THEN Append(@, rel) ELSE @]

\* one iteration of the for loop over raw_lines
loop_body(b, raw, a, det, src) ==
    LET rel == stripped[raw] IN
    IF rel = "" THEN b
    ELSE IF facts[rel].is_comment THEN b
    ELSE bucket_line(count_line(b, rel), rel, a, det, src)

RECURSIVE dedupe_from(_, _, _)
dedupe_from(values, seen, out) ==
    IF values = <<>> THEN out
    ELSE IF Head(values) \in seen THEN dedupe_from(Tail(values), seen, out)
    ELSE dedupe_from(Tail(values), seen \cup {Head(values)}, Append(out, Head(values)))

\* mutant: the lists are written as collected
dedupe_none(values) == values

dedupe(values) == dedupe_from(values, {}, <<>>)

EmptyBuckets ==
    [total_nonempty |-> 0, recommended |-> <<>>, critical |-> <<>>,
     not_needed |-> <<>>, optional_unmatched |-> <<>>, install_list |-> <<>>,
     invalid_entries |-> <<>>, missing_files |-> <<>>]

Buckets ==
    [total_nonempty |-> total_nonempty, recommended |-> recommended,
     critical |-> critical, not_needed |-> not_needed,
     optional_unmatched |-> optional_unmatched, install_list |-> install_list,
     invalid_entries |-> invalid_entries, missing_files |-> missing_files]

\* the lists after the dedupe calls of lines 277-283
deduped(b) ==
    [total_nonempty |-> b.total_nonempty, recommended |-> dedupe(b.recommended),
     critical |-> dedupe(b.critical), not_needed |-> dedupe(b.not_needed),
     optional_unmatched |-> dedupe(b.optional_unmatched),
     install_list |-> dedupe(b.install_list),
     invalid_entries |-> dedupe(b.invalid_entries),
     missing_files |-> dedupe(b.missing_files)]

\* the for loop over lines[k..], then the dedupe calls: what main() writes
RECURSIVE run_loop(_, _, _, _, _, _)
run_loop(b, lines, k, a, det, src) ==
    IF k > Len(lines) THEN deduped(b)
    ELSE run_loop(loop_body(b, lines[k], a, det, src), lines, k + 1, a, det, src)

\* the lists main() writes for a manifest, arguments and the two directories
run_main(lines, a, tree, src) ==
    run_loop(EmptyBuckets, lines, 1, a, detect_table[tree], src)

(***************************************************************************)
(* main()                                                                  *)
(***************************************************************************)
NoSummary == [written |-> FALSE]

InitWith(ins, argset) ==
    /\ args \in argset
    /\ \E inp \in ins :
        /\ manifest = inp[1]
        /\ source_dir = inp[2]
        /\ target_home = inp[3]
    /\ pc = "start"
    /\ detected = [c \in ToSet(COMPONENTS) |-> FALSE]
    /\ raw_lines = <<>>
    /\ idx = 1
    /\ total_nonempty = 0
    /\ recommended = <<>>
    /\ critical = <<>>
    /\ not_needed = <<>>
    /\ optional_unmatched = <<>>
    /\ install_list = <<>>
    /\ invalid_entries = <<>>
    /\ missing_files = <<>>
    /\ summary = NoSummary

Init == InitWith(Inputs(Manifests(Lines), {SourceFiles, SparseFiles}, Homes), AllArgs)

InitErrors == InitWith(Inputs(Manifests(ErrorLines), {SourceFiles}, {Tree({})}), AllArgs)

InitPaths == InitWith(Inputs(Manifests(PathLines), {SourceFiles}, {Tree({})}), AllArgs)

InitDetect ==
    InitWith(Inputs({DetectLines}, {SourceFiles}, DetectHomes),
             {a \in AllArgs : ~a.include_critical /\ ~a.include_not_needed})

inputs == <<manifest, source_dir, target_home, args>>

lists == <<total_nonempty, recommended, critical, not_needed, optional_unmatched,
           install_list, invalid_entries, missing_files>>

SetLists(b) ==
    /\ total_nonempty' = b.total_nonempty
    /\ recommended' = b.recommended
    /\ critical' = b.critical
    /\ not_needed' = b.not_needed
    /\ optional_unmatched' = b.optional_unmatched
    /\ install_list' = b.install_list
    /\ invalid_entries' = b.invalid_entries
    /\ missing_files' = b.missing_files

\* lines 195-200: the start-up checks pass
preconditions == manifest.exists /\ source_dir.exists /\ target_home.exists

\* lines 195-212: start-up checks, detect_components, empty lists, read_text
Start ==
    /\ pc = "start"
    /\ preconditions
    /\ detected' = detect_table[target_home.entries]
    /\ raw_lines' = manifest.lines
    /\ idx' = 1
    /\ SetLists(EmptyBuckets)
    /\ pc' = "loop"
    /\ UNCHANGED <<inputs, summary>>

\* lines 195-200: raise SystemExit
Exit ==
    /\ pc = "start"
    /\ ~preconditions
    /\ pc' = "exit"
    /\ UNCHANGED <<inputs, detected, raw_lines, idx, lists, summary>>

\* lines 215-264: one iteration of the for loop
ProcessLine ==
    /\ pc = "loop"
    /\ idx <= Len(raw_lines)
    /\ SetLists(loop_body(Buckets, raw_lines[idx], args, detected, source_dir))
    /\ idx' = idx + 1
    /\ UNCHANGED <<inputs, pc, detected, raw_lines, summary>>

\* lines 293-310
make_summary(b, a, det) ==
    [written |-> TRUE,
     profile |-> a.profile,
     total_in_manifest |-> b.total_nonempty,
     recommended_count |-> Len(b.recommended),
     system_critical_count |-> Len(b.critical),
     not_needed_count |-> Len(b.not_needed),
     optional_unmatched_count |-> Len(b.optional_unmatched),
     install_count |-> Len(b.install_list),
     invalid_entry_count |-> Len(b.invalid_entries),
     missing_file_count |-> Len(b.missing_files),
     detected_components |-> SelectSeq(COMPONENTS, LAMBDA c : det[c]),
     missing_components |-> SelectSeq(COMPONENTS, LAMBDA c : ~det[c]),
     include_critical |-> a.include_critical,
     include_not_needed |-> a.include_not_needed]

\* lines 277-333: dedupe, the reports, the summary
Finish ==
    /\ pc = "loop"
    /\ idx > Len(raw_lines)
    /\ SetLists(deduped(Buckets))
    /\ summary' = make_summary(deduped(Buckets), args, detected)
    /\ pc' = "done"
    /\ UNCHANGED <<inputs, detected, raw_lines, idx>>

Next == Start \/ Exit \/ ProcessLine \/ Finish

Spec == Init /\ [][Next]_vars

SpecErrors == InitErrors /\ [][Next]_vars

SpecPaths == InitPaths /\ [][Next]_vars

SpecDetect == InitDetect /\ [][Next]_vars

(***************************************************************************)
(* Properties                                                              *)
(***************************************************************************)
Done == pc = "done"

\* a trimmed line that is neither blank nor a comment
IsEntry(rel) == rel # "" /\ ~startswith(rel, "#")

\* the trimmed non-blank, non-comment lines among the first n lines read
EntriesUpTo(n) == {r \in {stripped[raw_lines[i]] : i \in 1..n} : IsEntry(r)}

ManifestPaths == EntriesUpTo(Len(raw_lines))

ValidExisting(p) == facts[p].is_valid_relative_path /\ facts[p].parts \in source_dir.files

DispositionBuckets ==
    <<invalid_entries, missing_files, not_needed, critical, recommended,
      optional_unmatched>>

BucketsHolding(p) == {k \in 1..6 : p \in ToSet(DispositionBuckets[k])}

InNoBucket(p) == BucketsHolding(p) = {} /\ p \notin ToSet(install_list)

\* C1, as claimed: after main() finishes every non-blank, non-comment manifest
\* line is in at most one of invalid_entries, missing_files, not_needed,
\* system_critical, recommended and optional_unmatched; in particular a path in
\* optional_unmatched is not in recommended.
C1_Partition ==
    Done => \A p \in ManifestPaths : Cardinality(BucketsHolding(p)) <= 1

\* C1, amended: after main() finishes every non-blank, non-comment manifest line
\* is in at most one of the six buckets, except that under profile full a path
\* may be in both recommended and optional_unmatched (and in no third bucket).
C1_PartitionAmended ==
    Done => \A p \in ManifestPaths :
                \/ Cardinality(BucketsHolding(p)) <= 1
                \/ args.profile = "full" /\ BucketsHolding(p) = {5, 6}

C1_Witness ==
    /\ Done
    /\ args.profile = "full"
    /\ \E p \in ManifestPaths : BucketsHolding(p) = {5, 6}
    /\ invalid_entries # <<>>
    /\ not_needed # <<>>

\* the paths of install_list for the run's manifest and directories under a
\* profile, with both override flags off
InstallSet(profile) ==
    ToSet(run_main(manifest.lines,
                   [profile |-> profile, include_critical |-> FALSE,
                    include_not_needed |-> FALSE],
                   target_home.entries, source_dir).install_list)

NoOverrides == ~args.include_critical /\ ~args.include_not_needed

\* C2: for a fixed manifest, source root and target home, with both override
\* flags off, install_list under full contains install_list under auto, which
\* contains install_list under safe (the run's own install_list being the one of
\* its profile).
C2_ProfileMonotone ==
    (Done /\ NoOverrides) =>
        /\ ToSet(install_list) = InstallSet(args.profile)
        /\ InstallSet("safe") \subseteq InstallSet("auto")
        /\ InstallSet("auto") \subseteq InstallSet("full")

C2_Witness ==
    /\ Done
    /\ NoOverrides
    /\ args.profile = "auto"
    /\ InstallSet("safe") # InstallSet("auto")
    /\ ToSet(install_list) # InstallSet("full")
    /\ InstallSet("safe") # {}

\* C3: a valid, existing path that is both a test artifact and system-critical
\* is in not_needed only, and is in install_list iff include-not-needed is set
\* or the profile is full, whatever include-critical is.
C3_TestArtifactFirst ==
    Done => \A p \in ManifestPaths :
                (ValidExisting(p) /\ facts[p].is_not_needed /\ facts[p].is_system_critical) =>
                    /\ p \in ToSet(not_needed)
                    /\ p \notin ToSet(critical)
                    /\ p \notin ToSet(recommended)
                    /\ p \notin ToSet(optional_unmatched)
                    /\ p \in ToSet(install_list)
                         <=> (args.include_not_needed \/ args.profile = "full")

C3_Witness ==
    /\ Done
    /\ args.include_critical /\ ~args.include_not_needed /\ args.profile = "auto"
    /\ is_not_needed("x.spec.ts") /\ is_system_critical("x.spec.ts")
    /\ "x.spec.ts" \in ToSet(not_needed)
    /\ "x.spec.ts" \notin ToSet(install_list)

\* C4: after main() finishes the paths of install_list are those of recommended,
\* with those of system_critical when include-critical is set or the profile is
\* full, and those of not_needed when include-not-needed is set or the profile
\* is full.
C4_InstallList ==
    Done =>
        ToSet(install_list) =
            ToSet(recommended)
            \cup (IF args.include_critical \/ args.profile = "full"
                  THEN ToSet(critical) ELSE {})
            \cup (IF args.include_not_needed \/ args.profile = "full"
                  THEN ToSet(not_needed) ELSE {})

C4_Witness ==
    /\ Done
    /\ args.include_critical /\ ~args.include_not_needed /\ args.profile = "auto"
    /\ critical # <<>>
    /\ not_needed # <<>>
    /\ recommended # <<>>

\* the test-artifact patterns applied to the lower-cased path
LooksLikeTestArtifact(p) ==
    \/ contains(lower(p), "/__tests__/")
    \/ endswith(lower(p), ".spec.ts")
    \/ endswith(lower(p), ".snap")

\* C5: every valid, existing path whose lower-cased form has the segment
\* /__tests__/ or ends with .spec.ts or .snap is a test artifact for
\* is_not_needed and ends up in not_needed, not in system_critical or
\* recommended, whatever its letter case.
C5_CaseInsensitive ==
    Done => \A p \in ManifestPaths :
                (ValidExisting(p) /\ LooksLikeTestArtifact(p)) =>
                    /\ is_not_needed(p)
                    /\ p \in ToSet(not_needed)
                    /\ p \notin ToSet(critical)
                    /\ p \notin ToSet(recommended)

\* the position of the first manifest line whose trimmed form is p
FirstIndex(p) ==
    CHOOSE k \in 1..Len(raw_lines) :
        /\ stripped[raw_lines[k]] = p
        /\ \A j \in 1..(k - 1) : stripped[raw_lines[j]] # p

OrderedNoDup(list) ==
    /\ ToSet(list) \subseteq ManifestPaths
    /\ \A i, j \in 1..Len(list) :
        i < j => list[i] # list[j] /\ FirstIndex(list[i]) < FirstIndex(list[j])

\* C6: each of the seven output lists holds every path at most once, in the
\* order of the paths' first occurrences in the manifest.
C6_DedupOrder ==
    Done =>
        /\ OrderedNoDup(recommended)
        /\ OrderedNoDup(critical)
        /\ OrderedNoDup(not_needed)
        /\ OrderedNoDup(optional_unmatched)
        /\ OrderedNoDup(install_list)
        /\ OrderedNoDup(invalid_entries)
        /\ OrderedNoDup(missing_files)

C6_Witness ==
    /\ Done
    /\ raw_lines = <<"random/notes.txt", "docs/prompts/x.txt", "random/notes.txt">>
    /\ recommended = <<"random/notes.txt", "docs/prompts/x.txt">>
    /\ install_list = recommended

HasDotDotSegment(rel) == \E i \in 1..Len(split(rel)) : split(rel)[i] = ".."

OtherLists ==
    ToSet(missing_files) \cup ToSet(not_needed) \cup ToSet(critical)
        \cup ToSet(recommended) \cup ToSet(optional_unmatched) \cup ToSet(install_list)

\* C7: a non-blank, non-comment line the loop has handled is in invalid_entries
\* iff its trimmed form starts with "/" or has a segment equal to ".."; it is
\* stored trimmed and is in no other list.
C7_InvalidIff ==
    /\ \A p \in EntriesUpTo(idx - 1) :
        /\ p \in ToSet(invalid_entries) <=> (startswith(p, "/") \/ HasDotDotSegment(p))
        /\ p \in ToSet(invalid_entries) => p \notin OtherLists
    /\ ToSet(invalid_entries) \subseteq EntriesUpTo(idx - 1)

C7_Witness ==
    /\ Done
    /\ raw_lines = <<"  ../evil", "a/..b", "a/../b.txt">>
    /\ invalid_entries = <<"../evil", "a/../b.txt">>
    /\ recommended = <<"a/..b">>

Without(seq, x) == SelectSeq(seq, LAMBDA y : y # x)

RemoveAt(lines, k) == SubSeq(lines, 1, k - 1) \o SubSeq(lines, k + 1, Len(lines))

NonBlankCount(lines) ==
    Cardinality({i \in 1..Len(lines) : IsEntry(stripped[lines[i]])})

\* a line the loop buckets as invalid or missing
IsBadLine(raw) ==
    /\ IsEntry(stripped[raw])
    /\ ~ValidExisting(stripped[raw])

\* the lists of the run equal those of the run on the manifest without line k,
\* but for that line's own entry in invalid_entries or missing_files
SameWithoutLine(k) ==
    LET r == run_main(RemoveAt(raw_lines, k), args, target_home.entries, source_dir)
        bad == stripped[raw_lines[k]]
    IN  /\ r.recommended = recommended
        /\ r.critical = critical
        /\ r.not_needed = not_needed
        /\ r.optional_unmatched = optional_unmatched
        /\ r.install_list = install_list
        /\ Without(r.invalid_entries, bad) = Without(invalid_entries, bad)
        /\ Without(r.missing_files, bad) = Without(missing_files, bad)

C9_SilentlyExcluded ==
    Done => \A p \in ManifestPaths :
                (ValidExisting(p) /\ InNoBucket(p)) =>
                    /\ args.profile = "safe"
                    /\ ~facts[p].is_not_needed
                    /\ ~facts[p].is_system_critical
                    /\ \/ facts[p].classify_component = "general"
                       \/ detected[facts[p].classify_component]
                    /\ ~facts[p].is_prompt_content

C9_Witness ==
    /\ Done
    /\ args.profile = "safe"
    /\ "random/notes.txt" \in ManifestPaths
    /\ ValidExisting("random/notes.txt")
    /\ InNoBucket("random/notes.txt")

\* an entry of the target home at the place a candidate names, "*" standing
\* for any one name
MatchesAnyName(entry, segs) ==
    /\ Len(entry) = Len(segs)
    /\ \A k \in 1..Len(segs) : segs[k] = "*" \/ entry[k] = segs[k]

CandidateExists(c) ==
    \E i \in 1..Len(checks[c]) :
        \E e \in target_home.entries \cup {<<>>} :
            MatchesAnyName(e, parts(checks[c][i]))

\* C10: detect_components reports a specific component present iff an entry of
\* the target home is at the place one of its candidates names, "*" matching
\* any one name, names that begin with a dot included; general is always
\* reported present.
C10_WildcardAnyName ==
    pc \in {"loop", "done"} =>
        /\ detected["general"]
        /\ \A c \in ToSet(COMPONENTS) \ {"general"} : detected[c] <=> CandidateExists(c)

====
